---- MODULE Spec2Model ----
(***************************************************************************)
(* Continuous Audio Recorder: the AudioRecorder of core/audio_recorder.py  *)
(* as a state machine.  The file system holds the lock file and the        *)
(* command file; every recorder process has a control thread (the caller   *)
(* of start/stop/pause/resume), and per session a capture thread           *)
(* (_record_audio) and a writer thread (_process_audio) that share the     *)
(* flags recording/paused, the queue and the open wave file.               *)
(***************************************************************************)
EXTENDS Integers, Sequences, FiniteSets, TLC

(* ---------------------------------------------------------------- bounds *)
\* sessions (successful starts) the recorder processes go through in all
MaxSessions == 2
\* chunks the audio device delivers to one recorder process
MaxChunks == 2
\* command files other invocations write
MaxCommands == 2
\* block ends the wall clock reaches
MaxBlocks == 1
\* reads in a row the audio device fails
MaxReadErrors == 6

(* ------------------------------------------------------------- processes *)
\* the recorder processes that share one configuration path
Procs == {1, 2}
\* a pid that no longer exists, a live python process that is no recorder,
\* and a live process whose executable is not python
StalePids == {3}
ForeignPython == {4}
ForeignOther == {5}
Pids == Procs \cup StalePids \cup ForeignPython \cup ForeignOther

\* os.path.exists(lock_file) is false
NoFile == 0
\* the file exists and int(f.read().strip()) raises
Unreadable == -1

LockContents == {NoFile, Unreadable} \cup Pids

\* psutil.pid_exists(pid)
pid_exists(pid) == pid \in Procs \cup ForeignPython \cup ForeignOther
\* "python" in psutil.Process(pid).name().lower()
is_python(pid) == pid \in Procs \cup ForeignPython

Threads == 1..MaxSessions
\* the thread that runs a control-surface call (not a session worker)
Control == 0
Executors == {Control} \cup Threads

Commands == {"stop", "pause", "resume"}

VARIABLES
    lock_file,        \* content of .recorder.lock
    lock_op,          \* the last call of a lock method: caller, method, file before, result
    cmd_file,         \* content of .recorder.cmd ("none" when absent)
    ncommands,        \* command files written so far (the file present is the last one)
    taken,            \* the command a capture thread has read in _check_command
    acted,            \* per command file written, how often its command was carried out
    recording,        \* self.recording of each process
    paused,           \* self.paused of each process
    ctl,              \* where the control thread of each process stands
    last,             \* the last control call that returned, and its result
    nsessions,        \* successful starts so far (names the workers)
    record_thread,    \* self.record_thread (0 is None)
    process_thread,   \* self.process_thread (0 is None)
    cap,              \* where each capture thread stands
    wr,               \* where each writer thread stands
    audio_queue,      \* self.audio_queue
    nchunks,          \* chunks read from the stream so far
    wdata,            \* the chunk a writer thread holds between get and write
    written,          \* the chunks written to wave files, in write order
    lost,             \* chunks dequeued and never written
    now,              \* wall-clock time, in hours since midnight of day 0
    waves,            \* the wave files opened so far: "open" or "closed"
    current_wave,     \* self.current_wave: an index of waves (0 is None)
    transcoded,       \* per wave file, how often convert_to_mp3 ran on it
    wfile,            \* file_path of each writer thread (an index of waves)
    wend,             \* block_end_time of each writer thread
    call,             \* the last call of a function checked on its own: name, arguments, result
    read_errors,      \* stream.read failures in a row, per process
    mono,             \* self.config["audio"]["mono"] of each process
    chunk_channels,   \* per chunk read, the channels of its frames
    wave_channels,    \* per wave file opened, the channels its header declares
    monitor_level,    \* self.config["audio"]["monitor_level"] of each process, in tenths
    monitor_stream,   \* whether self.monitor_stream of each process is a stream (not None)
    cleanup,          \* where each cleanup thread stands
    sent              \* per command file written, the session that held the lock then

lockVars == <<lock_file, lock_op>>
cmdVars == <<cmd_file, ncommands, taken, acted, sent>>
flagVars == <<recording, paused>>
threadVars == <<nsessions, record_thread, process_thread, cap, wr>>
dataVars == <<audio_queue, nchunks, wdata, written, lost, chunk_channels>>
fileVars == <<waves, current_wave, transcoded, wfile, wend, wave_channels>>
configVars == <<mono>>
auxVars == <<call, read_errors>>
monitorVars == <<monitor_level, monitor_stream>>
sweepVars == <<cleanup>>
vars == <<lock_file, lock_op, cmd_file, ncommands, taken, acted, recording, paused, ctl, last,
          nsessions, record_thread, process_thread, cap, wr,
          audio_queue, nchunks, wdata, written, lost,
          now, waves, current_wave, transcoded, wfile, wend, call, read_errors,
          mono, chunk_channels, wave_channels,
         monitor_level, monitor_stream, cleanup, sent>>

(* ------------------------------------------------------------ lock file *)
\* _check_lock: True iff the file names a live process whose name has "python"
CheckLockBusy(f) ==
    /\ f # NoFile
    /\ f # Unreadable
    /\ pid_exists(f)
    /\ is_python(f)

\* a _check_lock that leaves a stale lock file in place
CheckLockKeepsFile(f) == f

\* _check_lock: the file it leaves (a file not reported busy is removed)
CheckLockFile(f) == IF CheckLockBusy(f) THEN f ELSE NoFile

\* _create_lock: the file it leaves; ok is whether open(lock_file, "w") worked
CreateLockFile(p, f, ok) == IF ok THEN p ELSE f

\* _cleanup_lock: True iff the file named the caller (and was removed)
CleanupLockResult(p, f) == f = p

\* a _cleanup_lock that removes the lock file whoever it names
CleanupLockAnyFile(p, f) == NoFile

\* _cleanup_lock: the file it leaves
CleanupLockFile(p, f) == IF f = p THEN NoFile ELSE f

(* -------------------------------------------------------------- helpers *)
\* where executor e of process p stands: the control thread or a capture
\* thread (which runs stop_recording itself on a relayed "stop")
pcOf(p, e) == IF e = Control THEN ctl[p] ELSE cap[p][e]

Goto(p, e, v) ==
    IF e = Control
    THEN /\ ctl' = [ctl EXCEPT ![p] = v]
         /\ cap' = cap
    ELSE /\ cap' = [cap EXCEPT ![p][e] = v]
         /\ ctl' = ctl

\* a call of op returns res: "true" or "false" ("already" for the False of a
\* start on a recording session); "running" until it returns, "raised" when
\* an exception leaves it
Returns(p, op, res) == last' = [last EXCEPT ![p] = [op |-> op, res |-> res]]

\* the end of the 3-hour block that holds hour t (block_end_time)
BlockEnd(t) ==
    LET hour == t % 24
        day == t \div 24
        block_end_hour == ((hour \div 3) + 1) * 3
    IN  IF block_end_hour >= 24 THEN (day + 1) * 24 ELSE day * 24 + block_end_hour

\* config["audio"]["format"]
format == "mp3"
\* config["audio"]["channels"]
channels == 2

\* the channels of a frame: 1 if config["audio"]["mono"] else channels
Layout(isMono) == IF isMono THEN 1 ELSE channels

\* a thread that join(timeout=2.0) may give up on: a capture thread inside
\* stream.read or inside a relayed stop, a writer inside convert_to_mp3
StopPcs == {"stop_join_record", "stop_join_process", "stop_finish"}
CaptureBlocked(p, t) == cap[p][t] \in {"read"} \cup StopPcs
WriterBlocked(p, t) == wr[p][t] = "convert"

\* where a capture thread goes on after _check_command: it sleeps and starts
\* the next iteration when paused, and reads a chunk otherwise
AfterCommand(isPaused) == IF isPaused THEN "loop" ELSE "read"

(* ----------------------------------------------------------------- Init *)
NoCall == [by |-> 0, op |-> "none", before |-> NoFile, result |-> FALSE]
NoLockOp == [by |-> 0, op |-> "none", before |-> NoFile, result |-> FALSE,
             prev |-> NoCall]

\* _check_command has read no command file
NoCommand == [id |-> 0, command |-> "none"]

\* no function has been called on its own
NoFunction == [fn |-> "none"]

InitRest ==
    /\ lock_op = NoLockOp
    /\ cmd_file = "none"
    /\ ncommands = 0
    /\ sent = [i \in 1..MaxCommands |-> 0]
    /\ taken = [p \in Procs |-> [t \in Threads |-> NoCommand]]
    /\ acted = [i \in 1..MaxCommands |-> 0]
    /\ recording = [p \in Procs |-> FALSE]
    /\ paused = [p \in Procs |-> FALSE]
    /\ ctl = [p \in Procs |-> "idle"]
    /\ last = [p \in Procs |-> [op |-> "none", res |-> "none"]]
    /\ nsessions = [p \in Procs |-> 0]
    /\ record_thread = [p \in Procs |-> 0]
    /\ process_thread = [p \in Procs |-> 0]
    /\ cap = [p \in Procs |-> [t \in Threads |-> "none"]]
    /\ wr = [p \in Procs |-> [t \in Threads |-> "none"]]
    /\ audio_queue = [p \in Procs |-> <<>>]
    /\ nchunks = [p \in Procs |-> 0]
    /\ wdata = [p \in Procs |-> [t \in Threads |-> 0]]
    /\ written = [p \in Procs |-> <<>>]
    /\ lost = [p \in Procs |-> {}]
    /\ now = 0
    /\ waves = [p \in Procs |-> <<>>]
    /\ current_wave = [p \in Procs |-> 0]
    /\ transcoded = [p \in Procs |-> <<>>]
    /\ wfile = [p \in Procs |-> [t \in Threads |-> 0]]
    /\ wend = [p \in Procs |-> [t \in Threads |-> 0]]
    /\ read_errors = [p \in Procs |-> 0]
    /\ mono = [p \in Procs |-> FALSE]
    /\ chunk_channels = [p \in Procs |-> <<>>]
    /\ wave_channels = [p \in Procs |-> <<>>]
    /\ monitor_level = [p \in Procs |-> 0]
    /\ monitor_stream = [p \in Procs |-> FALSE]
    /\ cleanup = [p \in Procs |-> [t \in Threads |-> "none"]]

\* no recorder runs; the lock file is absent or left over by a dead process
Init ==
    /\ lock_file \in {NoFile} \cup StalePids
    /\ call = NoFunction
    /\ InitRest

(* ------------------------------------------------------ start_recording *)
RECURSIVE Sum(_, _)
Sum(f, S) == IF S = {} THEN 0
             ELSE LET x == CHOOSE y \in S : TRUE IN f[x] + Sum(f, S \ {x})

\* start_recording up to _check_lock
StartCheck(p) ==
    /\ ctl[p] = "idle"
    /\ Sum(nsessions, Procs) < MaxSessions
    /\ IF recording[p] \/ CheckLockBusy(lock_file)
       THEN /\ Returns(p, "start", IF recording[p] THEN "already" ELSE "false")
            /\ UNCHANGED <<lock_file, ctl>>
       ELSE /\ lock_file' = CheckLockFile(lock_file)
            /\ ctl' = [ctl EXCEPT ![p] = "start_create"]
            /\ Returns(p, "start", "running")
    /\ UNCHANGED <<auxVars, configVars, sweepVars, monitorVars, lock_op, cmdVars, flagVars,
                   threadVars, dataVars, now, fileVars>>

\* start_recording: _create_lock, whose result is not looked at; ok is
\* whether the file system lets the lock file be written
StartCreate(p, ok) ==
    /\ ctl[p] = "start_create"
    /\ lock_file' = CreateLockFile(p, lock_file, ok)
    /\ ctl' = [ctl EXCEPT ![p] = "start_device"]
    /\ UNCHANGED <<auxVars, configVars, sweepVars, monitorVars, lock_op, cmdVars, flagVars,
                   last, threadVars, dataVars, now, fileVars>>

\* start_recording from the device checks on: without a device the lock is
\* given back and the call fails, with one the flags are set and the
\* workers started
StartDevice(p) ==
    /\ ctl[p] = "start_device"
    /\ ctl' = [ctl EXCEPT ![p] = "idle"]
    /\ \E resolved \in BOOLEAN :
        IF resolved
        THEN LET t == nsessions[p] + 1 IN
             /\ recording' = [recording EXCEPT ![p] = TRUE]
             /\ paused' = [paused EXCEPT ![p] = FALSE]
             /\ nsessions' = [nsessions EXCEPT ![p] = t]
             /\ record_thread' = [record_thread EXCEPT ![p] = t]
             /\ process_thread' = [process_thread EXCEPT ![p] = t]
             /\ cap' = [cap EXCEPT ![p][t] = "init"]
             /\ wr' = [wr EXCEPT ![p][t] = "init"]
             /\ cleanup' = [cleanup EXCEPT ![p][t] = "run"]
             /\ \E opened \in {monitor_level[p] > 0, FALSE} :
                    monitor_stream' = [monitor_stream EXCEPT ![p] = opened]
             /\ Returns(p, "start", "true")
             /\ UNCHANGED lock_file
        ELSE /\ lock_file' = CleanupLockFile(p, lock_file)
             /\ Returns(p, "start", "false")
             /\ UNCHANGED <<flagVars, threadVars, monitor_stream, cleanup>>
    /\ UNCHANGED <<auxVars, configVars, monitor_level, lock_op, cmdVars, dataVars, now,
                   fileVars>>

(* ------------------------------------------------------- stop_recording *)
\* a stop_recording that does not look at self.recording
StopUnguarded(p) == TRUE

\* the guard of stop_recording
StopGuard(p) == recording[p]

\* stop_recording called by the control surface, up to and with _stop_monitor
StopBegin(p) ==
    /\ ctl[p] = "idle"
    /\ IF StopGuard(p)
       THEN /\ recording' = [recording EXCEPT ![p] = FALSE]
            /\ ctl' = [ctl EXCEPT ![p] = "stop_join_record"]
            /\ Returns(p, "stop", "running")
       ELSE /\ Returns(p, "stop", "false")
            /\ UNCHANGED <<recording, ctl>>
    /\ monitor_stream' = IF StopGuard(p) THEN [monitor_stream EXCEPT ![p] = FALSE]
                       ELSE monitor_stream
    /\ UNCHANGED <<auxVars, configVars, sweepVars, monitor_level, lockVars, cmdVars,
                   paused, threadVars, dataVars, now, fileVars>>

\* stop_recording: record_thread.join(timeout=2.0), run by a thread other
\* than the record thread
StopJoinRecord(p, e) ==
    /\ pcOf(p, e) = "stop_join_record"
    /\ LET t == record_thread[p] IN
       IF t = 0
       THEN UNCHANGED record_thread
       ELSE /\ cap[p][t] = "done" \/ CaptureBlocked(p, t)
            /\ record_thread' = [record_thread EXCEPT ![p] = 0]
    /\ Goto(p, e, "stop_join_process")
    /\ UNCHANGED <<auxVars, configVars, sweepVars, monitorVars, lockVars, cmdVars,
                   flagVars, last, nsessions, process_thread, wr, dataVars, now, fileVars>>

\* stop_recording: process_thread.join(timeout=2.0)
StopJoinProcess(p, e) ==
    /\ pcOf(p, e) = "stop_join_process"
    /\ LET t == process_thread[p] IN
       IF t = 0
       THEN UNCHANGED process_thread
       ELSE /\ wr[p][t] = "done" \/ WriterBlocked(p, t)
            /\ process_thread' = [process_thread EXCEPT ![p] = 0]
    /\ Goto(p, e, "stop_finish")
    /\ UNCHANGED <<auxVars, configVars, sweepVars, monitorVars, lockVars, cmdVars,
                   flagVars, last, nsessions, record_thread, wr, dataVars, now, fileVars>>

\* stop_recording: close and convert the current file, terminate PyAudio,
\* _cleanup_lock, return True
StopFinish(p, e) ==
    /\ pcOf(p, e) = "stop_finish"
    /\ LET w == current_wave[p] IN
       IF w # 0
       THEN /\ waves' = [waves EXCEPT ![p][w] = "closed"]
            /\ current_wave' = [current_wave EXCEPT ![p] = 0]
            /\ transcoded' = [transcoded EXCEPT ![p][w] =
                                IF format = "mp3" THEN @ + 1 ELSE @]
       ELSE UNCHANGED <<waves, current_wave, transcoded>>
    /\ lock_file' = CleanupLockFile(p, lock_file)
    /\ Goto(p, e, IF e = Control THEN "idle" ELSE AfterCommand(paused[p]))
    /\ Returns(p, "stop", "true")
    /\ UNCHANGED <<auxVars, configVars, sweepVars, monitorVars, lock_op, cmdVars, flagVars,
                   threadVars, dataVars, now, wfile, wend, wave_channels>>

(* ------------------------------------------------------- pause / resume *)
\* a pause_recording / resume_recording that does not look at self.recording
PauseUnguarded(p) == TRUE

\* the guard of pause_recording and of resume_recording
PauseGuard(p) == recording[p]

PauseRecording(p) ==
    /\ ctl[p] = "idle"
    /\ IF PauseGuard(p)
       THEN /\ paused' = [paused EXCEPT ![p] = TRUE]
            /\ Returns(p, "pause", "true")
       ELSE /\ Returns(p, "pause", "false")
            /\ UNCHANGED paused
    /\ UNCHANGED <<auxVars, configVars, sweepVars, monitorVars, lockVars, cmdVars,
                   recording, ctl, threadVars, dataVars, now, fileVars>>

ResumeRecording(p) ==
    /\ ctl[p] = "idle"
    /\ IF PauseGuard(p)
       THEN /\ paused' = [paused EXCEPT ![p] = FALSE]
            /\ Returns(p, "resume", "true")
       ELSE /\ Returns(p, "resume", "false")
            /\ UNCHANGED paused
    /\ UNCHANGED <<auxVars, configVars, sweepVars, monitorVars, lockVars, cmdVars,
                   recording, ctl, threadVars, dataVars, now, fileVars>>

(* ------------------------------------------ capture thread: _record_audio *)
\* device validation and opening the stream; on failure recording is
\* cleared and the thread ends
CaptureInit(p, t) ==
    /\ cap[p][t] = "init"
    /\ \E opened \in BOOLEAN :
        IF opened
        THEN /\ cap' = [cap EXCEPT ![p][t] = "loop"]
             /\ UNCHANGED recording
        ELSE /\ cap' = [cap EXCEPT ![p][t] = "done"]
             /\ recording' = [recording EXCEPT ![p] = FALSE]
    /\ UNCHANGED <<auxVars, configVars, sweepVars, monitorVars, lockVars, cmdVars, paused,
                   ctl, last, nsessions, record_thread, process_thread, wr, dataVars, now,
                   fileVars>>

\* one iteration up to the read, with no command file: the loop test and
\* "if self.paused: time.sleep(0.1); continue"
CaptureLoop(p, t) ==
    /\ cap[p][t] = "loop"
    /\ cmd_file = "none" \/ ~recording[p]
    /\ cap' = [cap EXCEPT ![p][t] = IF ~recording[p] THEN "done"
                                    ELSE AfterCommand(paused[p])]
    /\ UNCHANGED <<auxVars, configVars, sweepVars, monitorVars, lockVars, cmdVars,
                   flagVars, ctl, last, nsessions, record_thread, process_thread, wr,
                   dataVars, now, fileVars>>

\* one iteration, with a command file: _check_command finds the file and
\* reads it
CaptureOpen(p, t) ==
    /\ cap[p][t] = "loop"
    /\ recording[p]
    /\ cmd_file # "none"
    /\ taken' = [taken EXCEPT ![p][t] = [id |-> ncommands, command |-> cmd_file]]
    /\ cap' = [cap EXCEPT ![p][t] = "command"]
    /\ UNCHANGED <<auxVars, configVars, sweepVars, monitorVars, lockVars, cmd_file,
                   ncommands, acted, sent, flagVars, ctl, last, nsessions, record_thread,
                   process_thread, wr, dataVars, now, fileVars>>

\* the same iteration up to the read of the stream: _check_command removes
\* the command file and calls pause_recording, resume_recording or
\* stop_recording.  When the file is gone, os.remove raises and the command
\* is dropped.  stop_recording clears recording and joins record_thread;
\* when that is the calling thread, join raises RuntimeError, which leaves
\* stop_recording and is swallowed by _check_command
CaptureCommand(p, t) ==
    /\ cap[p][t] = "command"
    /\ cmd_file' = "none"
    /\ taken' = [taken EXCEPT ![p][t] = NoCommand]
    /\ LET command == taken[p][t].command IN
       IF cmd_file = "none"
       THEN /\ cap' = [cap EXCEPT ![p][t] = AfterCommand(paused[p])]
            /\ UNCHANGED <<acted, flagVars, last>>
       ELSE /\ acted' = [acted EXCEPT ![taken[p][t].id] = @ + 1]
            /\ IF command = "stop"
               THEN IF ~StopGuard(p)
                    THEN /\ cap' = [cap EXCEPT ![p][t] = AfterCommand(paused[p])]
                         /\ Returns(p, "stop", "false")
                         /\ UNCHANGED flagVars
                    ELSE /\ recording' = [recording EXCEPT ![p] = FALSE]
                         /\ UNCHANGED paused
                         /\ IF record_thread[p] = t
                            THEN /\ cap' = [cap EXCEPT ![p][t] = AfterCommand(paused[p])]
                                 /\ Returns(p, "stop", "raised")
                            ELSE /\ cap' = [cap EXCEPT ![p][t] = "stop_join_record"]
                                 /\ Returns(p, "stop", "running")
               ELSE IF ~PauseGuard(p)
                    THEN /\ cap' = [cap EXCEPT ![p][t] = AfterCommand(paused[p])]
                         /\ Returns(p, command, "false")
                         /\ UNCHANGED flagVars
                    ELSE /\ paused' = [paused EXCEPT ![p] = (command = "pause")]
                         /\ cap' = [cap EXCEPT ![p][t] = AfterCommand(command = "pause")]
                         /\ Returns(p, command, "true")
                         /\ UNCHANGED recording
    /\ monitor_stream' =
           IF cmd_file # "none" /\ taken[p][t].command = "stop" /\ StopGuard(p)
           THEN [monitor_stream EXCEPT ![p] = FALSE]
           ELSE monitor_stream
    /\ UNCHANGED <<auxVars, configVars, sweepVars, monitor_level, lockVars, ncommands, sent,
                   ctl, nsessions, record_thread, process_thread, wr, dataVars, now,
                   fileVars>>

\* stream.read returns a chunk, which is put on the queue
CaptureRead(p, t) ==
    /\ cap[p][t] = "read"
    /\ nchunks[p] < MaxChunks
    /\ nchunks' = [nchunks EXCEPT ![p] = @ + 1]
    /\ audio_queue' = [audio_queue EXCEPT ![p] = Append(@, nchunks[p] + 1)]
    /\ cap' = [cap EXCEPT ![p][t] = "loop"]
    /\ read_errors' = [read_errors EXCEPT ![p] = 0]
    /\ chunk_channels' = [chunk_channels EXCEPT ![p] = Append(@, Layout(mono[p]))]
    /\ UNCHANGED <<call, configVars, sweepVars, monitorVars, lockVars, cmdVars, flagVars,
                   ctl, last, nsessions, record_thread, process_thread, wr, wdata, written,
                   lost, now, fileVars>>

\* stream.read raises and the exception leaves the loop: the handler around
\* the whole of _record_audio clears recording and the thread ends
CaptureReadFatal(p, t) ==
    /\ cap[p][t] = "read"
    /\ read_errors[p] < MaxReadErrors
    /\ cap' = [cap EXCEPT ![p][t] = "done"]
    /\ recording' = [recording EXCEPT ![p] = FALSE]
    /\ read_errors' = [read_errors EXCEPT ![p] = @ + 1]
    /\ UNCHANGED <<call, configVars, sweepVars, monitorVars, lockVars, cmdVars, paused,
                   ctl, last, nsessions, record_thread, process_thread, wr, dataVars, now,
                   fileVars>>

\* stream.read raises: logged, time.sleep(0.1), next iteration
CaptureReadError(p, t) ==
    /\ cap[p][t] = "read"
    /\ read_errors[p] < MaxReadErrors
    /\ cap' = [cap EXCEPT ![p][t] = "loop"]
    /\ read_errors' = [read_errors EXCEPT ![p] = @ + 1]
    /\ UNCHANGED <<call, configVars, sweepVars, monitorVars, lockVars, cmdVars, flagVars,
                   ctl, last, nsessions, record_thread, process_thread, wr, dataVars, now,
                   fileVars>>

(* ------------------------------------------ writer thread: _process_audio *)
\* a new wave file is opened and becomes self.current_wave
OpenWave(p, t) ==
    /\ waves' = [waves EXCEPT ![p] = Append(@, "open")]
    /\ current_wave' = [current_wave EXCEPT ![p] = Len(waves[p]) + 1]
    /\ wfile' = [wfile EXCEPT ![p][t] = Len(waves[p]) + 1]
    /\ wend' = [wend EXCEPT ![p][t] = BlockEnd(now)]
    /\ wave_channels' = [wave_channels EXCEPT ![p] = Append(@, Layout(mono[p]))]

\* audio_queue.get(block=True, timeout=0.1): the thread goes on to write
\* the chunk, or starts the next iteration on queue.Empty
Get(p, t) ==
    IF audio_queue[p] = <<>>
    THEN /\ wr' = [wr EXCEPT ![p][t] = "loop"]
         /\ UNCHANGED <<audio_queue, wdata>>
    ELSE /\ wdata' = [wdata EXCEPT ![p][t] = Head(audio_queue[p])]
         /\ audio_queue' = [audio_queue EXCEPT ![p] = Tail(@)]
         /\ wr' = [wr EXCEPT ![p][t] = "write"]

\* the code before the loop: block end, file path, wave file
WriterInit(p, t) ==
    /\ wr[p][t] = "init"
    /\ OpenWave(p, t)
    /\ transcoded' = [transcoded EXCEPT ![p] = Append(@, 0)]
    /\ wr' = [wr EXCEPT ![p][t] = "loop"]
    /\ UNCHANGED <<auxVars, configVars, sweepVars, monitorVars, lockVars, cmdVars,
                   flagVars, ctl, last, nsessions, record_thread, process_thread, cap,
                   dataVars, now>>

\* one iteration inside the block: the loop test, the block check, the get
WriterLoop(p, t) ==
    /\ wr[p][t] = "loop"
    /\ ~recording[p] \/ now < wend[p][t]
    /\ IF ~recording[p]
       THEN /\ wr' = [wr EXCEPT ![p][t] = "done"]
            /\ UNCHANGED <<audio_queue, wdata>>
       ELSE Get(p, t)
    /\ UNCHANGED <<auxVars, configVars, sweepVars, monitorVars, lockVars, cmdVars,
                   flagVars, ctl, last, nsessions, record_thread, process_thread, cap,
                   nchunks, written, lost, chunk_channels, now, fileVars>>

\* one iteration at the end of the block, up to convert_to_mp3:
\* self.current_wave.close() (on None it raises: the iteration is skipped)
WriterRotate(p, t) ==
    /\ wr[p][t] = "loop"
    /\ recording[p]
    /\ now >= wend[p][t]
    /\ LET w == current_wave[p] IN
       IF w = 0
       THEN UNCHANGED <<wr, waves>>
       ELSE /\ waves' = [waves EXCEPT ![p][w] = "closed"]
            /\ wr' = [wr EXCEPT ![p][t] = "convert"]
    /\ UNCHANGED <<auxVars, configVars, sweepVars, monitorVars, lockVars, cmdVars,
                   flagVars, ctl, last, nsessions, record_thread, process_thread, cap,
                   dataVars, now, current_wave, transcoded, wfile, wend, wave_channels>>

\* the transcoder runs on file_path when the format is mp3 and the file was
\* created (w = 0: wave.open had failed, ffmpeg finds no input)
Converted(runs, w) ==
    IF w # 0 /\ format = "mp3" THEN [runs EXCEPT ![w] = @ + 1] ELSE runs

\* convert_to_mp3(file_path) returns, the next block's file is opened, and
\* the iteration goes on with the get
WriterConvert(p, t) ==
    /\ wr[p][t] = "convert"
    /\ OpenWave(p, t)
    /\ transcoded' = [transcoded EXCEPT ![p] = Append(Converted(@, wfile[p][t]), 0)]
    /\ Get(p, t)
    /\ UNCHANGED <<auxVars, configVars, sweepVars, monitorVars, lockVars, cmdVars,
                   flagVars, ctl, last, nsessions, record_thread, process_thread, cap,
                   nchunks, written, lost, chunk_channels, now>>

\* self.current_wave.writeframes(data); on None or on a closed file it
\* raises, the chunk is dropped and the loop goes on
WriterWrite(p, t) ==
    /\ wr[p][t] = "write"
    /\ LET w == current_wave[p] IN
       IF w # 0 /\ waves[p][w] = "open"
       THEN /\ written' = [written EXCEPT ![p] = Append(@, <<w, wdata[p][t]>>)]
            /\ UNCHANGED lost
       ELSE /\ lost' = [lost EXCEPT ![p] = @ \cup {wdata[p][t]}]
            /\ UNCHANGED written
    /\ wdata' = [wdata EXCEPT ![p][t] = 0]
    /\ wr' = [wr EXCEPT ![p][t] = "loop"]
    /\ UNCHANGED <<auxVars, configVars, sweepVars, monitorVars, lockVars, cmdVars,
                   flagVars, ctl, last, nsessions, record_thread, process_thread, cap,
                   audio_queue, nchunks, chunk_channels, now, fileVars>>

(* ------------------------------------- writer thread: storage failures *)
\* the code before the loop raises (os.makedirs in create_file_path, or
\* wave.open): it is outside every try, the thread ends, recording stays
WriterInitFails(p, t) ==
    /\ wr[p][t] = "init"
    /\ wr' = [wr EXCEPT ![p][t] = "done"]
    /\ UNCHANGED <<auxVars, configVars, sweepVars, monitorVars, lockVars, cmdVars,
                   flagVars, ctl, last, nsessions, record_thread, process_thread, cap,
                   dataVars, now, fileVars>>

\* at a rotation convert_to_mp3 returns and wave.open of the next block's
\* file raises: block_end_time and file_path are those of the new block,
\* self.current_wave is still the file closed before; the handler of the
\* loop logs, sleeps 0.1 s, and the next iteration starts
WriterOpenFails(p, t) ==
    /\ wr[p][t] = "convert"
    /\ transcoded' = [transcoded EXCEPT ![p] = Converted(@, wfile[p][t])]
    /\ wfile' = [wfile EXCEPT ![p][t] = 0]
    /\ wend' = [wend EXCEPT ![p][t] = BlockEnd(now)]
    /\ wr' = [wr EXCEPT ![p][t] = "loop"]
    /\ UNCHANGED <<auxVars, configVars, sweepVars, monitorVars, lockVars, cmdVars,
                   flagVars, ctl, last, nsessions, record_thread, process_thread, cap,
                   dataVars, now, waves, current_wave, wave_channels>>

(* --------------------------------- cleanup thread: _run_cleanup_thread *)
\* the thread finds recording false, at its loop test or at the test it
\* makes every 10 s of its sleep, and ends; nothing joins it
CleanupEnds(p, t) ==
    /\ cleanup[p][t] = "run"
    /\ ~recording[p]
    /\ cleanup' = [cleanup EXCEPT ![p][t] = "done"]
    /\ UNCHANGED <<auxVars, configVars, monitorVars, lockVars, cmdVars, flagVars, ctl,
                   last, threadVars, dataVars, now, fileVars>>

(* ------------------------------------------------------------- settings *)
\* set_mono(m): the value is stored in the configuration at once
SetMono(p, m) ==
    /\ ctl[p] = "idle"
    /\ mono[p] # m
    /\ mono' = [mono EXCEPT ![p] = m]
    /\ UNCHANGED <<auxVars, monitorVars, sweepVars, lockVars, cmdVars, flagVars, ctl, last,
                   threadVars, dataVars, now, fileVars>>

\* the values of monitor_level a caller sets, in tenths
MonitorLevels == {0, 5}

\* set_monitor_level(level) with a level in [0, 1]: stored at once; a
\* monitor that is running is stopped and, for a level above 0, started
\* again
SetMonitorLevel(p, level) ==
    /\ ctl[p] = "idle"
    /\ monitor_level[p] # level
    /\ monitor_level' = [monitor_level EXCEPT ![p] = level]
    /\ monitor_stream' = [monitor_stream EXCEPT ![p] = @ /\ level > 0]
    /\ UNCHANGED <<auxVars, configVars, sweepVars, lockVars, cmdVars, flagVars, ctl, last,
                   threadVars, dataVars, now, fileVars>>

(* ----------------------------------------- monitor thread: _monitor_audio *)
\* one iteration that finds the queue not empty: the chunk is taken off
\* the queue, scaled and played
MonitorGet(p) ==
    /\ monitor_stream[p]
    /\ recording[p]
    /\ audio_queue[p] # <<>>
    /\ audio_queue' = [audio_queue EXCEPT ![p] = Tail(@)]
    /\ UNCHANGED <<auxVars, configVars, sweepVars, monitorVars, lockVars, cmdVars,
                   flagVars, ctl, last, threadVars, nchunks, wdata, written, lost,
                   chunk_channels, now, fileVars>>

(* ---------------------------------------------------------- environment *)
\* the session of the process the lock file names, a session being started
\* included; 0 when the lock file names no recorder
HolderSession ==
    IF lock_file \in Procs
    THEN nsessions[lock_file] + (IF ctl[lock_file] = "start_device" THEN 1 ELSE 0)
    ELSE 0

\* another invocation (main.py --stop/--pause/--resume) writes the command
\* file, whether or not a recorder holds the lock
SendCommand(c) ==
    /\ ncommands < MaxCommands
    /\ cmd_file' = c
    /\ ncommands' = ncommands + 1
    /\ sent' = [sent EXCEPT ![ncommands + 1] = HolderSession]
    /\ UNCHANGED <<taken, acted>>
    /\ UNCHANGED <<auxVars, configVars, sweepVars, monitorVars, lockVars, flagVars, ctl,
                   last, threadVars, dataVars, now, fileVars>>

\* the wall clock reaches the end of the current 3-hour block
Tick ==
    /\ now < MaxBlocks * 3
    /\ now' = BlockEnd(now)
    /\ UNCHANGED <<auxVars, configVars, sweepVars, monitorVars, lockVars, cmdVars,
                   flagVars, ctl, last, threadVars, dataVars, fileVars>>

(* ------------------------------------------- the lock methods on their own *)
\* any lock file content
InitLockOps ==
    /\ lock_file \in LockContents
    /\ call = NoFunction
    /\ InitRest

\* the call before this one
PrevCall == [by |-> lock_op.by, op |-> lock_op.op, before |-> lock_op.before,
             result |-> lock_op.result]

CheckLock(p) ==
    /\ lock_op' = [by |-> p, op |-> "check", before |-> lock_file,
                   result |-> CheckLockBusy(lock_file), prev |-> PrevCall]
    /\ lock_file' = CheckLockFile(lock_file)

CreateLock(p) ==
    \E ok \in BOOLEAN :
        /\ lock_op' = [by |-> p, op |-> "create", before |-> lock_file,
                       result |-> ok, prev |-> PrevCall]
        /\ lock_file' = CreateLockFile(p, lock_file, ok)

CleanupLock(p) ==
    /\ lock_op' = [by |-> p, op |-> "cleanup", before |-> lock_file,
                   result |-> CleanupLockResult(p, lock_file), prev |-> PrevCall]
    /\ lock_file' = CleanupLockFile(p, lock_file)

\* the command file is read and removed (the first lines of _check_command)
TakeCommand ==
    /\ cmd_file # "none"
    /\ cmd_file' = "none"
    /\ UNCHANGED <<auxVars, configVars, sweepVars, monitorVars, lockVars, ncommands, sent,
                   taken, acted>>

NextLockOps ==
    \/ /\ \E p \in Procs : CheckLock(p) \/ CreateLock(p) \/ CleanupLock(p)
       /\ UNCHANGED <<auxVars, configVars, sweepVars, monitorVars, cmdVars, flagVars, ctl,
                      last, threadVars, dataVars, now, fileVars>>
    \/ \E c \in Commands : SendCommand(c)
    \/ /\ TakeCommand
       /\ UNCHANGED <<flagVars, ctl, last, threadVars, dataVars, now, fileVars>>

SpecLockOps == InitLockOps /\ [][NextLockOps]_vars

(* ------------------------------------------------------- specifications *)
\* the recorder process followed in the one-process specifications
Recorder == CHOOSE p \in Procs : \A q \in Procs : p <= q

Calls(p) ==
    \/ StartCheck(p)
    \/ StartCreate(p, TRUE)
    \/ StartDevice(p)
    \/ StopBegin(p)
    \/ PauseRecording(p)
    \/ ResumeRecording(p)
    \/ \E e \in {Control} : StopJoinRecord(p, e)
    \/ \E e \in {Control} : StopJoinProcess(p, e)
    \/ \E e \in {Control} : StopFinish(p, e)

Workers(p) ==
    \E t \in Threads :
        \/ CaptureInit(p, t)
        \/ CaptureLoop(p, t)
        \/ WriterInit(p, t)
        \/ WriterLoop(p, t)

\* the audio device fails a read
Device(p) == \E t \in Threads : CaptureReadError(p, t)

Relay(p) ==
    \/ \E c \in Commands : SendCommand(c)
    \/ \E t \in Threads : CaptureOpen(p, t)
    \/ \E t \in Threads : CaptureCommand(p, t)
    \/ \E t \in Threads : StopJoinRecord(p, t)
    \/ \E t \in Threads : StopJoinProcess(p, t)
    \/ \E t \in Threads : StopFinish(p, t)

Audio(p) ==
    \/ Tick
    \/ \E t \in Threads :
        \/ CaptureRead(p, t)
        \/ WriterRotate(p, t)
        \/ WriterConvert(p, t)
        \/ WriterWrite(p, t)

\* one recorder: the control surface and the workers; the lock file may
\* fail to be written; no command is relayed, the device delivers no audio
\* and no block ends
NextCtl ==
    Calls(Recorder) \/ Workers(Recorder) \/ Device(Recorder) \/ StartCreate(Recorder, FALSE)
SpecCtl == Init /\ [][NextCtl]_vars

\* one recorder and the command relay
NextRelay == Calls(Recorder) \/ Workers(Recorder) \/ Device(Recorder) \/ Relay(Recorder)
SpecRelay == Init /\ [][NextRelay]_vars

\* one recorder, the audio device and the clock
Next == Calls(Recorder) \/ Workers(Recorder) \/ Device(Recorder) \/ Audio(Recorder)
Spec == Init /\ [][Next]_vars

\* one recorder, the audio device and the setting of mono; no block ends and
\* no read fails
Settings(p) ==
    \/ \E m \in BOOLEAN : SetMono(p, m)
    \/ \E t \in Threads : CaptureRead(p, t)
    \/ \E t \in Threads : WriterWrite(p, t)

NextSettings == Calls(Recorder) \/ Workers(Recorder) \/ Settings(Recorder)
SpecSettings == Init /\ [][NextSettings]_vars

\* the recorder processes competing for the lock; no read of the device
\* returns
\* a session with the monitor: the level is set, chunks are read, written
\* and played
Monitor(p) ==
    \/ \E level \in MonitorLevels : SetMonitorLevel(p, level)
    \/ MonitorGet(p)
    \/ \E t \in Threads : CaptureRead(p, t) \/ WriterWrite(p, t)
NextMonitor == Calls(Recorder) \/ Workers(Recorder) \/ Monitor(Recorder)
SpecMonitor == Init /\ [][NextMonitor]_vars

\* a session whose segment files cannot always be created
Storage(p) == \E t \in Threads : WriterInitFails(p, t) \/ WriterOpenFails(p, t)
NextStorage ==
    Calls(Recorder) \/ Workers(Recorder) \/ Audio(Recorder) \/ Storage(Recorder)
SpecStorage == Init /\ [][NextStorage]_vars

\* sessions with their three worker threads
Sweeper(p) == \E t \in Threads : CleanupEnds(p, t)
NextThreads ==
    Calls(Recorder) \/ Workers(Recorder) \/ Device(Recorder) \/ Sweeper(Recorder)
SpecThreads == Init /\ [][NextThreads]_vars

NextLock == \E p \in Procs : Calls(p) \/ Workers(p)
SpecLock == Init /\ [][NextLock]_vars

(* ------------------------------------- utils/file_utils.py: block times *)
\* a function is checked on its own: the rest of the state is as constructed
Idle ==
    /\ lock_file = NoFile
    /\ InitRest

otherVars == <<lockVars, cmdVars, flagVars, ctl, last, threadVars, dataVars, now, fileVars,
               read_errors, configVars, sweepVars,
               monitorVars>>

\* block durations that divide the day
BlockHours == {1, 2, 3, 4, 6, 8, 12, 24}
\* datetime values: a day count, the hour, the minute (seconds and
\* microseconds are reset wherever the minute is)
Days == {0, 1}
Minutes == {0, 1, 30, 59}
DateTimes == [day : Days, hour : 0..23, minute : Minutes]

\* datetime.replace(hour=h, minute=0, second=0, microsecond=0)
replace_hour(t, h) == [t EXCEPT !.hour = h, !.minute = 0]

\* a "next day" that is the same day
same_day(t) == t

\* t + datetime.timedelta(days=1)
plus_one_day(t) == [t EXCEPT !.day = @ + 1]

\* minutes between t and midnight of day 0
Stamp(t) == (t.day * 24 + t.hour) * 60 + t.minute

calculate_block_times(current_time, recording_hours) ==
    LET hour == current_time.hour
        block_number == hour \div recording_hours
        block_start_hour == block_number * recording_hours
        block_start_time == replace_hour(current_time, block_start_hour)
        block_end_hour == (block_number + 1) * recording_hours
        block_end_time ==
            IF block_end_hour >= 24
            THEN replace_hour(plus_one_day(current_time), block_end_hour % 24)
            ELSE replace_hour(current_time, block_end_hour)
    IN  <<block_start_time, block_end_time>>

\* seconds become minutes here
get_time_until_next_block(current_time, recording_hours) ==
    Stamp(calculate_block_times(current_time, recording_hours)[2]) - Stamp(current_time)

InitBlockTimes ==
    /\ Idle
    /\ call \in [fn : {"block_times"}, current_time : DateTimes,
                 recording_hours : BlockHours, done : {FALSE}]

CallBlockTimes ==
    /\ call.fn = "block_times"
    /\ ~call.done
    /\ call' = [fn |-> "block_times",
                current_time |-> call.current_time,
                recording_hours |-> call.recording_hours,
                done |-> TRUE,
                result |-> calculate_block_times(call.current_time, call.recording_hours),
                until |-> get_time_until_next_block(call.current_time, call.recording_hours)]
    /\ UNCHANGED otherVars

SpecBlockTimes == InitBlockTimes /\ [][CallBlockTimes]_vars

(* ------------------------------- utils/file_utils.py: retention sweep *)
\* sweeps of one recordings directory
MaxSweeps == 2

\* config["general"]["retention_days"]
RetentionDays == {-1, 0, 1, 90}
\* the date and the hour at which a sweep runs
SweepDates == {100}
SweepHours == {0, 12, 23}
\* the dates of the day directories
DirDates == {0, 9, 10, 99, 100}
\* day directories: base/YYYY/MM/DD (the layout create_file_path makes) and
\* base/YYYY-MM-DD (the old layout)
DayDirs == [date : DirDates, layout : {"year/month/day", "date"}]

\* datetime.datetime.now() - datetime.timedelta(days=retention_days)
cutoff_date(date, hour, retention_days) == [date |-> date - retention_days, hour |-> hour]

\* dir_date < cutoff_date, dir_date being datetime(year, month, day)
before_cutoff(dir_date, cutoff) == dir_date * 24 < cutoff.date * 24 + cutoff.hour

\* date_dir < cutoff_str, cutoff_str being cutoff_date.strftime("%Y-%m-%d")
before_cutoff_str(date_dir, cutoff) == date_dir < cutoff.date

\* the day directories cleanup_old_recordings leaves
cleanup_old_recordings(dirs, date, hour, retention_days) ==
    LET cutoff == cutoff_date(date, hour, retention_days)
        deleted(d) == IF d.layout = "year/month/day"
                      THEN before_cutoff(d.date, cutoff)
                      ELSE before_cutoff_str(d.date, cutoff)
    IN  {d \in dirs : ~deleted(d)}

InitSweep ==
    /\ Idle
    /\ call \in [fn : {"sweep"}, retention_days : RetentionDays,
                 date : SweepDates, hour : SweepHours,
                 before : SUBSET DayDirs, sweeps : {0}]
    /\ Cardinality(call.before) <= 4

\* _cleanup_old_recordings, as the cleanup thread runs it
Sweep ==
    /\ call.fn = "sweep"
    /\ call.sweeps < MaxSweeps
    /\ call' = [fn |-> "sweep",
                retention_days |-> call.retention_days,
                date |-> call.date,
                hour |-> call.hour,
                before |-> call.before,
                sweeps |-> call.sweeps + 1,
                dirs |-> cleanup_old_recordings(
                             IF call.sweeps = 0 THEN call.before ELSE call.dirs,
                             call.date, call.hour, call.retention_days)]
    /\ UNCHANGED otherVars

SpecSweep == InitSweep /\ [][Sweep]_vars

(* ------------------------------------------------------- mono downmix *)
\* signed 16-bit samples
Samples == {-32768, -20000, -1, 0, 1, 20000, 32767}
\* frames of a 2-channel buffer: <<left, right>>
Frames == Samples \X Samples
\* np.frombuffer(data, dtype=np.int16).reshape(-1, channels), channels = 2
Buffers ==
    {<<>>} \cup {<<f>> : f \in Frames}
           \cup {<<f, g>> : f \in Frames, g \in {<<1, -1>>, <<20000, 20000>>, <<-1, -2>>}}

\* a value as numpy keeps it in an int16 accumulator
int16(x) == ((x + 32768) % 65536) - 32768

\* a float cast to int16: the fraction is dropped
trunc_half(x) == IF x >= 0 THEN x \div 2 ELSE -((-x) \div 2)

\* np.mean(audio_data, axis=1, dtype=np.int16): the sum of a row is taken
\* in int16, divided by the row length and cast back to int16
mean_int16(frame) == trunc_half(int16(frame[1] + frame[2]))

\* the downmix of _record_audio and of convert_to_mono
convert_to_mono(buffer) == [i \in 1..Len(buffer) |-> mean_int16(buffer[i])]

InitMono ==
    /\ Idle
    /\ call \in [fn : {"mono"}, buffer : Buffers, done : {FALSE}]

CallMono ==
    /\ call.fn = "mono"
    /\ ~call.done
    /\ call' = [fn |-> "mono", buffer |-> call.buffer, done |-> TRUE,
                result |-> convert_to_mono(call.buffer)]
    /\ UNCHANGED otherVars

SpecMono == InitMono /\ [][CallMono]_vars

(* ---------------------------------------------- device auto-selection *)
\* the endpoints PyAudio enumerates: a loopback endpoint whose name is that
\* of the default output device, another loopback endpoint, the default
\* input device, another endpoint with input channels, an output endpoint
DeviceKinds == {"default_loopback", "loopback", "default_input", "input", "output"}
LoopbackKinds == {"default_loopback", "loopback"}
DeviceLists == {<<>>} \cup [1..1 -> DeviceKinds] \cup [1..2 -> DeviceKinds]
                 \cup [1..3 -> DeviceKinds]

\* "return None"
None == -1

\* audio.is_loopback(i)
is_loopback(devices, i) == devices[i] \in LoopbackKinds
\* device_info["name"] == default_output["name"]
is_default_output(devices, i) == devices[i] = "default_loopback"
\* device_info["maxInputChannels"] > 0
has_input(devices, i) == devices[i] # "output"

\* the first index of S (range(device_count) is walked in order), as the
\* 0-based index PyAudio uses
First(S) == (CHOOSE i \in S : \A j \in S : i <= j) - 1

\* _get_device_index with no device configured
get_device_index(devices, has_wasapi) ==
    LET all == 1..Len(devices)
        loopbacks == {i \in all : is_loopback(devices, i)}
        default_inputs == {i \in all : devices[i] = "default_input"}
        inputs == {i \in all : has_input(devices, i)}
    IN  IF has_wasapi /\ loopbacks # {} THEN First(loopbacks)
        ELSE IF default_inputs # {} THEN First(default_inputs)
        ELSE IF inputs # {} THEN First(inputs)
        ELSE None

InitDevices ==
    /\ Idle
    /\ call \in [fn : {"device"}, devices : DeviceLists, has_wasapi : BOOLEAN,
                 done : {FALSE}]
    /\ Cardinality({i \in 1..Len(call.devices) : call.devices[i] = "default_input"}) <= 1
    /\ ~call.has_wasapi =>
           \A i \in 1..Len(call.devices) : call.devices[i] \notin LoopbackKinds

CallGetDeviceIndex ==
    /\ call.fn = "device"
    /\ ~call.done
    /\ call' = [fn |-> "device", devices |-> call.devices,
                has_wasapi |-> call.has_wasapi, done |-> TRUE,
                result |-> get_device_index(call.devices, call.has_wasapi)]
    /\ UNCHANGED otherVars

SpecDevices == InitDevices /\ [][CallGetDeviceIndex]_vars

(* ------------------------------- core/audio_recorder.py: is_device_valid *)
\* calls of is_device_valid in one run of the harness
MaxProbes == 2
\* the indices a caller passes: no device, or one of two endpoints
ProbeDevices == {0, 1}
\* the steps of _check_device_thread, in order
ProbeStages == <<"instance", "info", "open", "read">>
\* the cache attributes device_valid_<i> and device_valid_<i>_time: no
\* attribute, or the value stored and whether it is less than 5 s old
NoCache == [d \in ProbeDevices |-> "none"]

InitProbe ==
    /\ Idle
    /\ call = [fn |-> "probe", pc |-> "idle", device_index |-> None, cached |-> NoCache,
               fresh |-> [d \in ProbeDevices |-> FALSE], worker |-> 0,
               result_queue |-> <<>>, read |-> FALSE, timed_out |-> FALSE,
               hit |-> FALSE, result |-> FALSE, ncalls |-> 0]

\* is_device_valid(device_index) up to thread.start(): False without a
\* device, the cached value when it is less than 5 s old, a worker otherwise
ProbeCall(d) ==
    /\ call.fn = "probe"
    /\ call.pc = "idle"
    /\ call.ncalls < MaxProbes
    /\ LET c == [call EXCEPT !.device_index = d, !.ncalls = @ + 1, !.worker = 0,
                             !.result_queue = <<>>, !.read = FALSE,
                             !.timed_out = FALSE, !.hit = FALSE] IN
       call' = IF d = None
               THEN [c EXCEPT !.result = FALSE]
               ELSE IF call.cached[d] # "none" /\ call.fresh[d]
               THEN [c EXCEPT !.result = (call.cached[d] = "True"), !.hit = TRUE]
               ELSE [c EXCEPT !.pc = "wait", !.worker = 1]
    /\ UNCHANGED otherVars

\* one step of _check_device_thread: get_pyaudio_instance,
\* get_device_info_by_index, audio.open, stream.read.  A step that raises
\* puts False and ends the thread; after the read True is put.  A step that
\* hangs is a worker that takes no further step
ProbeWorker(raises) ==
    /\ call.fn = "probe"
    /\ call.pc = "wait"
    /\ call.worker \in 1..Len(ProbeStages)
    /\ call' = IF raises
               THEN [call EXCEPT !.worker = 0, !.result_queue = Append(@, FALSE)]
               ELSE IF ProbeStages[call.worker] = "read"
               THEN [call EXCEPT !.worker = 0, !.read = TRUE,
                                 !.result_queue = Append(@, TRUE)]
               ELSE [call EXCEPT !.worker = @ + 1]
    /\ UNCHANGED otherVars

\* result_queue.get(timeout=2) gives the worker's report: it is cached and
\* returned
ProbeGet ==
    /\ call.fn = "probe"
    /\ call.pc = "wait"
    /\ call.result_queue # <<>>
    /\ LET result == Head(call.result_queue) IN
       call' = [call EXCEPT !.pc = "idle", !.result = result,
                            !.cached[call.device_index] =
                                IF result THEN "True" ELSE "False",
                            !.fresh[call.device_index] = TRUE]
    /\ UNCHANGED otherVars

\* result_queue.get(timeout=2) raises queue.Empty: False is cached and
\* returned; the worker is a daemon thread left to itself, whatever it puts
\* later goes to a queue nobody reads
ProbeTimeout ==
    /\ call.fn = "probe"
    /\ call.pc = "wait"
    /\ call.result_queue = <<>>
    /\ call' = [call EXCEPT !.pc = "idle", !.result = FALSE, !.timed_out = TRUE,
                            !.worker = 0, !.cached[call.device_index] = "False",
                            !.fresh[call.device_index] = TRUE]
    /\ UNCHANGED otherVars

\* 5 s pass since the value of device d was cached
ProbeExpire(d) ==
    /\ call.fn = "probe"
    /\ call.pc = "idle"
    /\ call.fresh[d]
    /\ call' = [call EXCEPT !.fresh[d] = FALSE]
    /\ UNCHANGED otherVars

NextProbe ==
    \/ \E d \in ProbeDevices \cup {None} : ProbeCall(d)
    \/ \E raises \in BOOLEAN : ProbeWorker(raises)
    \/ ProbeGet
    \/ ProbeTimeout
    \/ \E d \in ProbeDevices : ProbeExpire(d)
SpecProbe == InitProbe /\ [][NextProbe]_vars

(* ---------------------------------- utils/audio_utils.py: convert_to_mp3 *)
\* calls of convert_to_mp3 on one file in one run of the harness
MaxConversions == 2
\* what subprocess.run(cmd, shell=True, check=True) does: exit status 0
\* with the output written, exit status 0 with no output file left,
\* a non-zero exit status of ffmpeg, the shell not finding the binary
\* (exit status 127), an exception other than CalledProcessError
Transcodes == {"ok", "ok_no_output", "failed", "missing", "raises"}

\* the values of audio.quality a caller passes, one of them unknown
Qualities == {"high", "medium", "low", "best"}
\* quality_settings.get(quality, quality_settings["high"]), in kbit/s
quality_param(quality) ==
    CASE quality = "medium" -> 192
      [] quality = "low" -> 128
      [] OTHER -> 320

\* os.remove(wav_file) is reached by any run that leaves an output file
removes_if_output(outcome, mp3_after) == mp3_after

\* os.remove(wav_file) is reached: check=True raised nothing and
\* os.path.exists(mp3_file)
removes(outcome, mp3_after) == outcome \in {"ok", "ok_no_output"} /\ mp3_after

\* the files after convert_to_mp3(wav_file) and the value returned; wav and
\* mp3 say whether wav_file and its .mp3 sibling exist, partial whether a
\* failing ffmpeg leaves an output file behind
convert_to_mp3(wav, mp3, outcome, partial) ==
    LET mp3_after == CASE outcome = "ok" -> TRUE
                       [] outcome = "ok_no_output" -> FALSE
                       [] outcome = "failed" -> mp3 \/ partial
                       [] OTHER -> mp3
        removed == removes(outcome, mp3_after)
    IN  [wav |-> wav /\ ~removed, mp3 |-> mp3_after,
         result |-> IF removed THEN "mp3_file" ELSE "None"]

InitConvert ==
    /\ Idle
    /\ call \in [fn : {"convert"}, quality : Qualities, bitrate : {0}, wav : {TRUE},
                 mp3 : BOOLEAN, was : {TRUE}, log : {<<>>}, result : {"None"}]

\* one call of convert_to_mp3 on the file; ffmpeg succeeds only on a source
\* that exists
CallConvert ==
    /\ call.fn = "convert"
    /\ Len(call.log) < MaxConversions
    /\ \E outcome \in Transcodes, partial \in BOOLEAN :
        /\ outcome \in {"ok", "ok_no_output"} => call.wav
        /\ LET r == convert_to_mp3(call.wav, call.mp3, outcome, partial) IN
           call' = [fn |-> "convert", quality |-> call.quality,
                    bitrate |-> quality_param(call.quality), wav |-> r.wav,
                    mp3 |-> r.mp3, was |-> call.wav,
                    log |-> Append(call.log, outcome), result |-> r.result]
    /\ UNCHANGED otherVars

SpecConvert == InitConvert /\ [][CallConvert]_vars

(* -------------------------- core/audio_recorder.py: would_retention_fit *)
\* sizes are counted in GiB: what get_free_disk_space returns (0 also on an
\* error), what calculate_day_size returns, the values of retention_days
FreeSpaces == 0..12
DaySizes == {1, 2}
FitDays == {-1, 0, 1, 5, 10, 20}

\* "free_space >= needed_space"
reaches(free_space, needed_space) == free_space >= needed_space
\* "fits = free_space > needed_space"
exceeds(free_space, needed_space) == free_space > needed_space

\* a float as the fraction num / den, den > 0
Ratio(num, den) == [num |-> num, den |-> den]
\* min(a, b) on fractions
min(a, b) == IF a.num * b.den <= b.num * a.den THEN a ELSE b

\* would_retention_fit with get_free_disk_space() = free_space and
\* calculate_day_size() = day_size
would_retention_fit(free_space, day_size, retention_days) ==
    LET needed_space == day_size * retention_days
        percentage == IF free_space > 0 THEN Ratio(needed_space * 100, free_space)
                      ELSE Ratio(100, 1)
    IN  [fits |-> exceeds(free_space, needed_space),
         free_space |-> free_space,
         needed_space |-> needed_space,
         percentage |-> min(percentage, Ratio(100, 1))]

InitFit ==
    /\ Idle
    /\ call \in [fn : {"fit"}, free_space : FreeSpaces, day_size : DaySizes,
                 retention_days : FitDays, done : {FALSE}]

CallFit ==
    /\ call.fn = "fit"
    /\ ~call.done
    /\ call' = [fn |-> "fit", free_space |-> call.free_space, day_size |-> call.day_size,
                retention_days |-> call.retention_days, done |-> TRUE,
                result |-> would_retention_fit(call.free_space, call.day_size,
                                               call.retention_days)]
    /\ UNCHANGED otherVars

SpecFit == InitFit /\ [][CallFit]_vars

(* ------------------------------------- core/audio_recorder.py: setters *)
\* the arguments a caller passes, written as Python literals
QualityValues == {"'high'", "'medium'", "'low'", "'best'", "None"}
MonoValues == {"True", "False", "'false'", "0", "2", "None"}
LevelValues == {"-0.5", "0", "0.5", "1", "1.5", "None"}
DeviceValues == {"0", "1", "2", "None"}
SetterValues ==
    [set_audio_quality |-> QualityValues, set_mono |-> MonoValues,
     set_monitor_level |-> LevelValues, set_device |-> DeviceValues]
Setters == DOMAIN SetterValues

\* the settings the setters write: monitor_level in tenths, device_index
\* None or an index
Configs == [quality : {"'high'", "'low'"}, mono : BOOLEAN, monitor_level : {0, 5},
            device_index : {"None", "0"}]

\* bool(v)
bool(v) == v \notin {"False", "0", "None"}
\* float(v) in tenths; float(None) raises TypeError
float(v) ==
    CASE v = "-0.5" -> -5
      [] v = "0" -> 0
      [] v = "0.5" -> 5
      [] v = "1" -> 10
      [] v = "1.5" -> 15
\* audio.get_device_info_by_index(v) returns: two endpoints are enumerated
device_exists(v) == v \in {"0", "1"}

\* each setter gives the configuration it leaves and the value it returns
set_audio_quality(config, quality) ==
    IF quality \notin {"'high'", "'medium'", "'low'"}
    THEN [config |-> config, result |-> FALSE]
    ELSE [config |-> [config EXCEPT !.quality = quality], result |-> TRUE]

set_mono(config, v) ==
    [config |-> [config EXCEPT !.mono = bool(v)], result |-> TRUE]

set_monitor_level(config, level) ==
    IF level = "None" \/ float(level) < 0 \/ float(level) > 10
    THEN [config |-> config, result |-> FALSE]
    ELSE [config |-> [config EXCEPT !.monitor_level = float(level)], result |-> TRUE]

set_device(config, device_index) ==
    IF ~device_exists(device_index)
    THEN [config |-> config, result |-> FALSE]
    ELSE [config |-> [config EXCEPT !.device_index = device_index], result |-> TRUE]

InitSetters ==
    /\ Idle
    /\ \E setter \in Setters :
        call \in [fn : {"setter"}, setter : {setter}, value : SetterValues[setter],
                  before : Configs, done : {FALSE}]

CallSetter ==
    /\ call.fn = "setter"
    /\ ~call.done
    /\ LET r == CASE call.setter = "set_audio_quality" ->
                         set_audio_quality(call.before, call.value)
                  [] call.setter = "set_mono" -> set_mono(call.before, call.value)
                  [] call.setter = "set_monitor_level" ->
                         set_monitor_level(call.before, call.value)
                  [] call.setter = "set_device" -> set_device(call.before, call.value)
       IN  call' = [fn |-> "setter", setter |-> call.setter, value |-> call.value,
                    before |-> call.before, done |-> TRUE, config |-> r.config,
                    result |-> r.result]
    /\ UNCHANGED otherVars

SpecSetters == InitSetters /\ [][CallSetter]_vars

(* ------------------------------ utils/file_utils.py: create_file_path *)
\* datetime.now() in the writer: day, hour, minute and second (one field
\* here) and the microsecond
FileTimes == [day : Days, hour : 0..23, minute : {0, 30}, microsecond : {0, 7}]

\* the default of create_file_path's parameter recording_hours, which
\* _process_audio leaves alone
default_recording_hours == 3

\* t.strftime("%Y-%m-%d_%H-%M-%S"): the microsecond is not written
strftime(t) == [day |-> t.day, hour |-> t.hour, minute |-> t.minute]
\* datetime.strptime(s, "%Y-%m-%d_%H-%M-%S")
strptime(s) == [day |-> s.day, hour |-> s.hour, minute |-> s.minute, microsecond |-> 0]

\* the end of the block of t: replace(hour=..., minute=0, second=0) keeps
\* the microsecond
block_end_time(t, recording_hours) ==
    LET block_number == t.hour \div recording_hours
        block_end_hour == (block_number + 1) * recording_hours
    IN  IF block_end_hour >= 24
        THEN replace_hour(plus_one_day(t), 0)
        ELSE replace_hour(t, block_end_hour)

\* the file name "<start>_to_<end>.wav" as its two time stamps
create_file_path(block_start_time, recording_hours) ==
    [start |-> strftime(block_start_time),
     end |-> strftime(block_end_time(block_start_time, recording_hours))]

InitFileName ==
    /\ Idle
    /\ call \in [fn : {"file_name"}, block_start_time : FileTimes,
                 recording_hours : BlockHours, done : {FALSE}]

\* _process_audio opens a segment at block_start_time, with recording_hours
\* in the configuration: the end of its 3-hour block, and the file name
CallFileName ==
    /\ call.fn = "file_name"
    /\ ~call.done
    /\ call' = [fn |-> "file_name", block_start_time |-> call.block_start_time,
                recording_hours |-> call.recording_hours, done |-> TRUE,
                block_end_time |-> block_end_time(call.block_start_time, 3),
                file_name |-> create_file_path(call.block_start_time,
                                               default_recording_hours)]
    /\ UNCHANGED otherVars

SpecFileName == InitFileName /\ [][CallFileName]_vars

(* ================================================================ claims *)

(* C1: of the recorder processes sharing one configuration path at most    *)
(* one is recording at any time, for every interleaving of their           *)
(* start_recording steps, and the lock file names no process other than    *)
(* the one recording.                                                      *)
C1_MutualExclusion ==
    \A p \in Procs :
        recording[p] =>
            /\ \A q \in Procs : recording[q] => q = p
            /\ lock_file \notin Pids \ {p}

(* C2: whenever stop_recording has run on a recording session, called by  *)
(* the control surface or by the capture thread on a relayed "stop", then  *)
(* once it is over (returned True, or left by an exception of a teardown   *)
(* step) recording is false and the lock file does not name the process.   *)
C2_StopReleasesLock ==
    \A p \in Procs :
        (last[p].op = "stop" /\ last[p].res \in {"true", "raised"}) =>
            /\ ~recording[p]
            /\ lock_file # p

(* C3: check() reports busy if and only if the lock file names a live      *)
(* process other than the caller; a file naming the caller is not busy.    *)
C3_BusyIffLiveOther ==
    lock_op.op = "check" =>
        (lock_op.result <=>
            /\ lock_op.before \in Pids
            /\ pid_exists(lock_op.before)
            /\ lock_op.before # lock_op.by)

(* C4: on a lock file naming a process that does not exist, check()        *)
(* reports free and removes the file, and an acquire() that follows it     *)
(* (and can write the file) leaves a lock file naming the caller.          *)
C4_StaleLockIsFree ==
    /\ (lock_op.op = "check" /\ lock_op.before \in StalePids) =>
            /\ ~lock_op.result
            /\ lock_file = NoFile
    /\ (/\ lock_op.op = "create"
        /\ lock_op.result
        /\ lock_op.prev.op = "check"
        /\ lock_op.prev.before \in StalePids) =>
            /\ lock_op.before = NoFile
            /\ lock_file = lock_op.by

\* an acquire() has followed a check() that found a stale lock file
C4_Witness ==
    /\ lock_op.op = "create"
    /\ lock_op.result
    /\ lock_op.prev.op = "check"
    /\ lock_op.prev.by = lock_op.by
    /\ lock_op.prev.before \in StalePids
    /\ lock_file = lock_op.by

(* C5: release() removes the lock file only if it names the caller, and    *)
(* then reports success; when the file names another process, is           *)
(* unreadable or is absent, it is left as it was and release() reports     *)
(* failure.                                                                *)
C5_ReleaseOnlyOwnLock ==
    lock_op.op = "cleanup" =>
        IF lock_op.before = lock_op.by
        THEN lock_file = NoFile /\ lock_op.result
        ELSE lock_file = lock_op.before /\ ~lock_op.result

\* release() has run on a lock file that names another recorder
C5_Witness ==
    /\ lock_op.op = "cleanup"
    /\ lock_op.before \in Procs \ {lock_op.by}
    /\ lock_file = lock_op.before

(* C6: stop_recording on a session that is already stopped returns False   *)
(* and changes nothing: no flag, no worker, no wave file, no transcoding,  *)
(* not the lock file.                                                      *)
C6_StopWhenStoppedIsNoOp ==
    [][\A p \in Procs :
          (StopBegin(p) /\ ~recording[p]) =>
              /\ last'[p] = [op |-> "stop", res |-> "false"]
              /\ UNCHANGED <<lockVars, cmdVars, flagVars, ctl, threadVars,
                             dataVars, now, fileVars, auxVars, configVars,
                             sweepVars, monitorVars>>]_vars

\* a second stop_recording after a session was stopped has returned False
C6_Witness ==
    \E p \in Procs :
        /\ last[p] = [op |-> "stop", res |-> "false"]
        /\ ~recording[p]
        /\ nsessions[p] > 0
        /\ ctl[p] = "idle"

(* C7: a start_recording that returns False because the lock is busy or no *)
(* device can be resolved starts no worker, and after it recording is      *)
(* false and the lock file does not name the caller.                       *)
C7_FailedStartLeavesNoLock ==
    [][\A p \in Procs :
          (last'[p] = [op |-> "start", res |-> "false"] /\ last'[p] # last[p]) =>
              /\ UNCHANGED threadVars
              /\ ~recording'[p]
              /\ lock_file' # p]_vars

(* C8: the pair (recording, paused) is always Stopped (false, false),      *)
(* Recording (true, false) or Paused (true, true) and moves only along     *)
(* Stopped -> Recording, Recording -> Paused, Paused -> Recording and      *)
(* Recording/Paused -> Stopped; paused is never true while recording is    *)
(* false.                                                                  *)
C8_StateMachine ==
    [][LET State(r, q) == IF ~r /\ ~q THEN "Stopped"
                          ELSE IF r /\ ~q THEN "Recording"
                          ELSE IF r /\ q THEN "Paused"
                          ELSE "none"
           Edges == {<<"Stopped", "Recording">>, <<"Recording", "Paused">>,
                     <<"Paused", "Recording">>, <<"Recording", "Stopped">>,
                     <<"Paused", "Stopped">>}
       IN  \A p \in Procs :
               LET from == State(recording[p], paused[p])
                   to == State(recording'[p], paused'[p])
               IN  /\ to # "none"
                   /\ to # from => <<from, to>> \in Edges]_vars

(* C9: pause_recording and resume_recording on a stopped session return    *)
(* False and change neither recording nor paused nor any worker.           *)
C9_PauseWhenStoppedIsNoOp ==
    [][\A p \in Procs :
          ((PauseRecording(p) \/ ResumeRecording(p)) /\ ~recording[p]) =>
              /\ last'[p].res = "false"
              /\ UNCHANGED <<lockVars, cmdVars, flagVars, ctl, threadVars,
                             dataVars, now, fileVars, auxVars, configVars,
                             sweepVars, monitorVars>>]_vars

\* a pause_recording after a session ended has returned False, with the
\* writer of that session still there
C9_Witness ==
    \E p \in Procs :
        /\ last[p] = [op |-> "pause", res |-> "false"]
        /\ ~recording[p]
        /\ nsessions[p] > 0

(* C10: the chunks are written to the wave files in the order in which the *)
(* capture loop put them on the queue, and none is written twice (chunk    *)
(* numbers are the order of the puts).                                     *)
C10_WrittenInOrder ==
    \A p \in Procs :
        \A i, j \in 1..Len(written[p]) :
            i < j => written[p][i][2] < written[p][j][2]

(* C11: for every block duration H in {1,2,3,4,6,8,12,24} and every time   *)
(* now, calculate_block_times(now, H) returns a start and an end with      *)
(* start <= now < end, end - start exactly H hours, the start on the same  *)
(* day at a whole multiple of H hours, and the end at 0:00 of the next     *)
(* day when the block ends at 24:00.                                       *)
C11_BlockTimes ==
    (call.fn = "block_times" /\ call.done) =>
        LET t == call.current_time
            H == call.recording_hours
            boundaryStart == call.result[1]
            boundaryEnd == call.result[2]
        IN  /\ Stamp(boundaryStart) <= Stamp(t)
            /\ Stamp(t) < Stamp(boundaryEnd)
            /\ Stamp(boundaryEnd) - Stamp(boundaryStart) = H * 60
            /\ boundaryStart.day = t.day
            /\ boundaryStart.minute = 0
            /\ boundaryStart.hour % H = 0
            /\ boundaryEnd.minute = 0
            /\ (boundaryStart.hour + H = 24) =>
                   (boundaryEnd.day = t.day + 1 /\ boundaryEnd.hour = 0)
            /\ call.until = Stamp(boundaryEnd) - Stamp(t)

\* a time in the last block of a day, whose end is on the next day
C11_Witness ==
    /\ call.fn = "block_times"
    /\ call.done
    /\ call.current_time.hour = 23
    /\ call.current_time.minute = 59
    /\ call.recording_hours = 8
    /\ call.result[2].day = call.current_time.day + 1

(* C12: a session with compressed output that crosses k block boundaries   *)
(* and is then stopped leaves k+1 segments, all closed, and the transcoder *)
(* has run exactly once on each of them, never twice on the same file,     *)
(* whatever the interleaving of the writer thread with stop_recording.     *)
C12_SegmentsTranscodedOnce ==
    \A p \in Procs :
        /\ \A w \in 1..Len(waves[p]) : transcoded[p][w] <= 1
        /\ (/\ nsessions[p] = 1
            /\ last[p] = [op |-> "stop", res |-> "true"]
            /\ \A t \in Threads : cap[p][t] \in {"none", "done"}
            /\ \A t \in Threads : wr[p][t] \in {"none", "done"}) =>
                /\ Len(waves[p]) <= (now \div 3) + 1
                /\ \A w \in 1..Len(waves[p]) :
                       waves[p][w] = "closed" /\ transcoded[p][w] = 1

(* C13: with retention_days = N > 0 and sweep date D, a sweep deletes      *)
(* exactly the day directories dated before D - N and keeps every          *)
(* directory dated D - N or later, whatever the hour at which it runs.     *)
C13_SweepDeletesOlderThanN ==
    (call.fn = "sweep" /\ call.sweeps = 1 /\ call.retention_days > 0) =>
        call.dirs = {d \in call.before : d.date >= call.date - call.retention_days}

(* C14: with retention_days <= 0 no number of sweeps deletes anything.     *)
C14_NoSweepWhenDisabled ==
    (call.fn = "sweep" /\ call.sweeps >= 1 /\ call.retention_days <= 0) =>
        call.dirs = call.before

(* C15: after 5 read failures in a row on the bound device the capture     *)
(* loop looks for a working device and is rebound to it, so that (another  *)
(* device being there) no capture loop fails a sixth read in a row on the  *)
(* stream it opened.                                                       *)
C15_FailoverAfterFiveErrors ==
    \A p \in Procs : read_errors[p] <= 5

(* C16: a read error in the capture loop does not end the session:         *)
(* recording stays as it is, nothing is enqueued, and the thread starts    *)
(* the next iteration of its loop.                                         *)
C16_ReadErrorKeepsSession ==
    [][\A p \in Procs : \A t \in Threads :
          CaptureReadError(p, t) =>
              /\ recording'[p] = recording[p]
              /\ paused'[p] = paused[p]
              /\ audio_queue'[p] = audio_queue[p]
              /\ nchunks'[p] = nchunks[p]
              /\ cap'[p][t] = "loop"]_vars

\* a recording session whose capture thread is at the read again after two
\* failed reads
C16_Witness ==
    \E p \in Procs : \E t \in Threads :
        /\ recording[p]
        /\ read_errors[p] = 2
        /\ cap[p][t] = "read"
        /\ record_thread[p] = t
        /\ audio_queue[p] = <<>>

(* C17: the command of each command file written is carried out by the     *)
(* holder at most once, the file is gone once its command is carried out,  *)
(* the command a poll reads is the last one written, and one iteration of  *)
(* the capture loop carries out at most one command.                       *)
C17_CommandAtMostOnce ==
    [][/\ \A i \in 1..MaxCommands : acted'[i] <= 1
       /\ \A p \in Procs : \A t \in Threads :
              /\ CaptureOpen(p, t) => taken'[p][t].id = ncommands
              /\ CaptureCommand(p, t) =>
                     /\ cmd_file' = "none"
                     /\ Sum(acted', 1..MaxCommands) <= Sum(acted, 1..MaxCommands) + 1]_vars

(* C18: for every buffer of interleaved 16-bit 2-channel samples, pairs    *)
(* whose sum is outside the signed 16-bit range included, the downmix has  *)
(* one sample per frame and its i-th sample is the integer average of the  *)
(* i-th left/right pair (the average rounded to a neighbouring integer).   *)
C18_MonoIsAverage ==
    (call.fn = "mono" /\ call.done) =>
        /\ Len(call.result) = Len(call.buffer)
        /\ \A i \in 1..Len(call.buffer) :
               LET sum == call.buffer[i][1] + call.buffer[i][2]
               IN  2 * call.result[i] \in {sum - 1, sum, sum + 1}

(* C19: with no device configured, auto-selection returns a default        *)
(* loopback endpoint whenever there is one, in whatever order the devices  *)
(* are enumerated; otherwise a loopback endpoint; otherwise the default    *)
(* input; otherwise an endpoint with input channels; otherwise none.       *)
C19_SelectionPriority ==
    (call.fn = "device" /\ call.done) =>
        LET devices == call.devices
            kindOf(i) == IF i = None THEN "none" ELSE devices[i + 1]
            has(k) == \E i \in 1..Len(devices) : devices[i] = k
            chosen == kindOf(call.result)
        IN  IF has("default_loopback") THEN chosen = "default_loopback"
            ELSE IF has("loopback") THEN chosen = "loopback"
            ELSE IF has("default_input") THEN chosen = "default_input"
            ELSE IF has("input") THEN chosen = "input"
            ELSE chosen = "none"

(* C20: set_mono (like set_audio_quality, set_device, set_monitor_level)   *)
(* called while a session is recording or paused does not change the       *)
(* channel layout the running capture loop and writer use: every chunk     *)
(* written to a segment has the channel count that segment's header        *)
(* declares.                                                               *)
C20_ChunksMatchHeader ==
    \A p \in Procs :
        \A i \in 1..Len(written[p]) :
            chunk_channels[p][written[p][i][2]] = wave_channels[p][written[p][i][1]]

(* C21: once stop_recording has cleared recording, a worker of the session *)
(* that was stopped leaves its loop at its next loop test: a capture or    *)
(* writer thread of an earlier session that tests its loop condition ends, *)
(* it never goes on to another iteration.                                  *)
C21_StoppedWorkersLeave ==
    [][\A p \in Procs : \A t \in Threads :
          t < nsessions[p] =>
              /\ (cap[p][t] = "loop" /\ cap'[p][t] # "loop") => cap'[p][t] = "done"
              /\ (wr[p][t] = "loop" /\ wr'[p][t] # "loop") => wr'[p][t] = "done"]_vars

(* C22: is_device_valid returns whatever its worker does; when the worker  *)
(* has reported nothing by the deadline the answer is False; and the       *)
(* answer is True only when the worker of that call opened a stream and    *)
(* read one frame from it.                                                 *)
C22_ValidOnlyAfterRead ==
    (call.fn = "probe" /\ call.pc = "idle" /\ call.ncalls > 0) =>
        /\ call.timed_out => ~call.result
        /\ call.result => call.read

(* C23: convert_to_mp3 removes the source WAV only when the transcoder     *)
(* ended successfully and the .mp3 sibling exists afterwards; when the     *)
(* transcoder fails or its binary is missing the source is kept, None is   *)
(* returned and the transcoder is not run again by the call.               *)
C23_SourceKeptUnlessTranscoded ==
    (call.fn = "convert" /\ call.log # <<>>) =>
        LET outcome == call.log[Len(call.log)] IN
        /\ (call.was /\ ~call.wav) => (outcome = "ok" /\ call.mp3)
        /\ outcome \in {"failed", "missing", "raises"} =>
               call.wav = call.was /\ call.result = "None"
        /\ call.result = "mp3_file" => (call.mp3 /\ ~call.wav)

\* a first run that fails and leaves a partial output file behind, the
\* source kept; a second run that succeeds, the source removed
C23_Witness ==
    /\ call.fn = "convert"
    /\ call.log = <<"failed", "ok">>
    /\ call.was /\ ~call.wav /\ call.mp3
    /\ call.result = "mp3_file"

(* C24: would_retention_fit answers fits = false exactly when the free     *)
(* space is not greater than the space needed, and a percentage of         *)
(* needed / free * 100, never more than 100, and 100 when no space is free. *)
C24_RetentionFit ==
    (call.fn = "fit" /\ call.done) =>
        LET free == call.free_space
            needed == call.day_size * call.retention_days
            r == call.result
        IN  /\ r.needed_space = needed
            /\ r.fits = ~(free <= needed)
            /\ r.percentage.den > 0
            /\ free = 0 => r.percentage.num = 100 * r.percentage.den
            /\ (free > 0 /\ needed <= free) =>
                   r.percentage.num * free = needed * 100 * r.percentage.den
            /\ (free > 0 /\ needed > free) =>
                   r.percentage.num = 100 * r.percentage.den

\* 10 GiB free, 20 GiB needed: it does not fit, 100 per cent
C24_Witness ==
    /\ call.fn = "fit"
    /\ call.done
    /\ call.free_space = 10
    /\ call.result.needed_space = 20
    /\ ~call.result.fits
    /\ call.result.percentage = Ratio(100, 1)

(* C25: a setter given an invalid value (a quality other than high,        *)
(* medium, low; a monitor level outside [0, 1]; a mono value that is not a *)
(* boolean; the index of no device) returns False and leaves the           *)
(* configuration as it was.                                                *)
C25_InvalidValueRejected ==
    (call.fn = "setter" /\ call.done) =>
        LET valid == CASE call.setter = "set_audio_quality" ->
                              call.value \in {"'high'", "'medium'", "'low'"}
                       [] call.setter = "set_mono" -> call.value \in {"True", "False"}
                       [] call.setter = "set_monitor_level" ->
                              call.value \in {"0", "0.5", "1"}
                       [] call.setter = "set_device" -> call.value \in {"0", "1"}
        IN  ~valid => (~call.result /\ call.config = call.before)

(* C26: the start and end time stamps parsed out of a segment's file name  *)
(* are, to the second, the start time and the block end the writer created *)
(* the segment with, and the end is the end of the block of                *)
(* recording_hours hours that contains the start.                          *)
C26_FileNameRoundTrip ==
    (call.fn = "file_name" /\ call.done) =>
        LET start == strptime(call.file_name.start)
            end == strptime(call.file_name.end)
            boundaryEnd == calculate_block_times(call.block_start_time,
                                                 call.recording_hours)[2]
        IN  /\ Stamp(start) = Stamp(call.block_start_time)
            /\ Stamp(end) = Stamp(call.block_end_time)
            /\ Stamp(end) = Stamp(boundaryEnd)

(* C27: the writer thread is the only consumer of audio_queue, also with a *)
(* monitor level above 0: a chunk that leaves the queue is the chunk a     *)
(* writer thread holds next.                                               *)
C27_WriterOnlyConsumer ==
    [][\A p \in Procs :
          (audio_queue[p] # <<>> /\ audio_queue'[p] = Tail(audio_queue[p])) =>
              \E t \in Threads :
                  wdata[p][t] = 0 /\ wdata'[p][t] = Head(audio_queue[p])]_vars

(* C28: for every recording_hours H in {1, 2, 3, 4, 6, 8, 12, 24} the      *)
(* block end the writer sets for a segment is the end of the block of H    *)
(* hours that contains the segment's start, which is the moment at which   *)
(* get_time_until_next_block reaches zero.                                 *)
C28_BoundaryFromRecordingHours ==
    (call.fn = "file_name" /\ call.done) =>
        LET t == call.block_start_time
            H == call.recording_hours
        IN  /\ Stamp(call.block_end_time) = Stamp(calculate_block_times(t, H)[2])
            /\ Stamp(call.block_end_time) - Stamp(t) = get_time_until_next_block(t, H)

(* C29: when the capture thread of a started session cannot resolve its    *)
(* device or open its stream, the session falls back to stopped: once      *)
(* recording is false and the workers have ended, with no control call     *)
(* under way, no segment is left open and the lock file does not name the  *)
(* process.                                                                *)
C29_FailedCaptureStopsSession ==
    \A p \in Procs :
        (/\ nsessions[p] > 0
         /\ ~recording[p]
         /\ ctl[p] = "idle"
         /\ \A t \in Threads : cap[p][t] \in {"none", "done"}
         /\ \A t \in Threads : wr[p][t] \in {"none", "done"}) =>
            /\ lock_file # p
            /\ \A w \in 1..Len(waves[p]) : waves[p][w] = "closed"

(* C30: only the writer thread closes the open segment: stop_recording     *)
(* closes and converts it only when every writer thread has ended, no      *)
(* segment is closed twice, and no chunk is written to a closed segment.   *)
C30_WriterOwnsSegment ==
    [][\A p \in Procs :
          /\ lost'[p] = lost[p]
          /\ \A e \in Executors :
                 (StopFinish(p, e) /\ current_wave[p] # 0) =>
                     /\ \A t \in Threads : wr[p][t] \in {"none", "done"}
                     /\ waves[p][current_wave[p]] = "open"]_vars

(* C31: a failure to create, write or close a segment file does not end    *)
(* the writer: while recording is true the writer thread of the session    *)
(* has not ended, and once it is back in its loop inside a block it has an *)
(* open segment to write to.                                               *)
C31_StorageErrorKeepsWriter ==
    \A p \in Procs :
        LET t == process_thread[p] IN
        (recording[p] /\ t # 0 /\ ctl[p] = "idle") =>
            /\ wr[p][t] # "done"
            /\ (wr[p][t] = "loop" /\ now < wend[p][t]) =>
                   (current_wave[p] # 0 /\ waves[p][current_wave[p]] = "open")

(* C32: a capture thread goes on to read the stream only when paused is    *)
(* false, and while a session is paused at most one read, the one under    *)
(* way when pause_recording returned, is still to be enqueued.             *)
C32_NoReadWhilePaused ==
    [][\A p \in Procs :
          /\ \A t \in Threads :
                 (cap[p][t] # "read" /\ cap'[p][t] = "read") => ~paused'[p]
          /\ (recording[p] /\ paused[p]) =>
                 Cardinality({t \in Threads : cap[p][t] = "read"}) <= 1]_vars

(* C33: when stop_recording has returned True and the workers have ended,  *)
(* audio_queue is empty: every chunk the capture thread enqueued was       *)
(* written (or dropped by a failed write) in its own session and none is   *)
(* left for the writer of a later session.                                 *)
C33_QueueEmptyAfterStop ==
    \A p \in Procs :
        (/\ last[p] = [op |-> "stop", res |-> "true"]
         /\ ctl[p] = "idle"
         /\ ~recording[p]
         /\ \A t \in Threads : cap[p][t] \in {"none", "done"}
         /\ \A t \in Threads : wr[p][t] \in {"none", "done"}) =>
            audio_queue[p] = <<>>

(* C34: _check_lock never removes a lock file that names a process that is *)
(* alive, whatever the name of its executable: after the check the file    *)
(* still names that process.                                               *)
C34_CheckKeepsLiveLock ==
    (/\ lock_op.op = "check"
     /\ lock_op.before \in Pids
     /\ pid_exists(lock_op.before)) =>
        lock_file = lock_op.before

(* C35: whatever start_recording and stop_recording calls were made, a     *)
(* process has at most one capture thread, one writer thread and one       *)
(* cleanup thread that have not ended.                                     *)
C35_OneWorkerOfEachKind ==
    \A p \in Procs :
        /\ Cardinality({t \in Threads : cap[p][t] \notin {"none", "done"}}) <= 1
        /\ Cardinality({t \in Threads : wr[p][t] \notin {"none", "done"}}) <= 1
        /\ Cardinality({t \in Threads : cleanup[p][t] \notin {"none", "done"}}) <= 1

(* C36: no sweep deletes the day directory of the sweep's own date in the  *)
(* layout create_file_path makes, which is the directory of the segment    *)
(* the writer has open, for every value of retention_days.                 *)
C36_SweepKeepsOpenSegmentDir ==
    (call.fn = "sweep" /\ call.sweeps >= 1) =>
        LET today == [date |-> call.date, layout |-> "year/month/day"] IN
        today \in call.before => today \in call.dirs

(* C37: a capture thread carries out a command only if the command file   *)
(* was written while the lock file named its process in its own session:   *)
(* a command written before the session had the lock is never carried out. *)
C37_NoStaleCommand ==
    [][\A p \in Procs : \A t \in Threads : \A i \in 1..MaxCommands :
          (CaptureCommand(p, t) /\ acted'[i] # acted[i]) => sent[i] = t]_vars

(* C38: start_recording returns True, and starts the workers of a session,  *)
(* only if the lock file was written and names the caller: when the write   *)
(* of the lock file fails, the call starts no worker.                       *)
C38_StartNeedsWrittenLock ==
    [][\A p \in Procs :
          (StartDevice(p) /\ (last'[p].res = "true" \/ nsessions'[p] # nsessions[p]))
              => lock_file = p]_vars

(* C39: one sweep treats the two layouts of a day alike: when the store    *)
(* holds both the year/month/day directory and the YYYY-MM-DD directory of  *)
(* a date, the sweep deletes the one exactly when it deletes the other.     *)
C39_LayoutsSweptAlike ==
    (call.fn = "sweep" /\ call.sweeps >= 1) =>
        \A d \in DirDates :
            LET nested == [date |-> d, layout |-> "year/month/day"]
                flat == [date |-> d, layout |-> "date"]
            IN  (nested \in call.before /\ flat \in call.before) =>
                    (nested \in call.dirs <=> flat \in call.dirs)
====
